---- MODULE Spec2Model ----
(***************************************************************************)
(* Model of the two PyBox utilities:                                       *)
(*   ReFileSerial/ReSerial.py  - serial-prefixed batch renamer             *)
(*   ReFileTime/ReTime.py      - file timestamp editor                     *)
(*                                                                         *)
(* Text is modelled as sequences of one-character strings.  The character  *)
(* U+3001 (ideographic comma, one of SEPARATORS) is written "U+3001".      *)
(* Python's None is the empty tuple, a present value x is <<x>>.           *)
(***************************************************************************)
EXTENDS Integers, Sequences, FiniteSets, TLC

VARIABLES
    tool,                 \* which program / function is exercised
    pc,                   \* position in that program
    \* ---- classifier (is_sequence_file called on its own) ----
    filename,             \* argument of is_sequence_file
    cls,                  \* its return value
    \* ---- renamer (ReSerial.main) ----
    BASE_SERIAL,          \* configured base constant
    folder_exists,        \* os.path.exists(TARGET_FOLDER)
    fs,                   \* entries of TARGET_FOLDER: set of [id, name, kind]
    fs0,                  \* the folder as it was when main() started
    sequence_files,       \* list of classified entries
    unique_serials,       \* sorted distinct serials
    serial_reverse_map,   \* original serial -> final serial
    idx,                  \* index of the rename loop into sequence_files
    success_count,        \* counter of successful renames
    attempts,             \* per entry: number of times the loop body ran
    renames,              \* history of performed os.rename calls
    summary,              \* the counts printed by the summary line
    \* ---- timestamp editor (ReTime) ----
    system,               \* platform.system()
    tz,                   \* local zone, seconds east of UTC
    now,                  \* time.time()
    target,               \* what is at file_path: "missing", "dir" or "file"
    ftimes,               \* the file's timestamps [create, access, modify]
    ftimes0,              \* the timestamps before the call
    args,                 \* [create_time, modify_time, access_time]
    ts,                   \* [new_create_ts, new_modify_ts, new_access_ts]
    raised,               \* exception propagating out of modify_file_times
    writes,               \* number of timestamp-writing calls made
    warned,               \* the creation-time warning was printed
    stderr,               \* error lines written to sys.stderr
    exit_code             \* process exit status (None while running)

vars == <<tool, pc, filename, cls, BASE_SERIAL, folder_exists, fs, fs0,
          sequence_files, unique_serials, serial_reverse_map, idx,
          success_count, attempts, renames, summary, system, tz, now, target,
          ftimes, ftimes0, args, ts, raised, writes, warned, stderr,
          exit_code>>

classifierVars == <<filename, cls>>
renamerVars == <<BASE_SERIAL, folder_exists, fs, fs0, sequence_files,
                 unique_serials, serial_reverse_map, idx, success_count,
                 attempts, renames, summary>>
timeVars == <<system, tz, now, target, ftimes, ftimes0, args, ts, raised, writes,
              warned, stderr, exit_code>>

None == <<>>
Some(x) == <<x>>

(***************************************************************************)
(* Bounds of the model.                                                    *)
(***************************************************************************)
MaxNameLen == 4       \* longest filename handed to is_sequence_file alone
MaxFiles == 3         \* most entries in the target folder

(***************************************************************************)
(* Text helpers (Python built-ins used by the code).                       *)
(***************************************************************************)
Digits == {"0", "1", "2", "3", "4", "5", "6", "7", "8", "9"}

Whitespace == {" ", "\n", "\t"}

DigitValue(c) ==
    CASE c = "0" -> 0 [] c = "1" -> 1 [] c = "2" -> 2 [] c = "3" -> 3
      [] c = "4" -> 4 [] c = "5" -> 5 [] c = "6" -> 6 [] c = "7" -> 7
      [] c = "8" -> 8 [] c = "9" -> 9

DigitChar(d) ==
    CASE d = 0 -> "0" [] d = 1 -> "1" [] d = 2 -> "2" [] d = 3 -> "3"
      [] d = 4 -> "4" [] d = 5 -> "5" [] d = 6 -> "6" [] d = 7 -> "7"
      [] d = 8 -> "8" [] d = 9 -> "9"

\* int(s) for a non-empty run of decimal digits
RECURSIVE ParseInt(_)
ParseInt(s) ==
    IF s = <<>> THEN 0
    ELSE 10 * ParseInt(SubSeq(s, 1, Len(s) - 1)) + DigitValue(s[Len(s)])

\* str(n) for n >= 0
RECURSIVE IntToStr(_)
IntToStr(n) ==
    IF n < 10 THEN <<DigitChar(n)>>
    ELSE IntToStr(n \div 10) \o <<DigitChar(n % 10)>>

RECURSIVE Zeros(_)
Zeros(k) == IF k <= 0 THEN <<>> ELSE <<"0">> \o Zeros(k - 1)

\* format(n, "0{W}d"): sign first, zero-filled to a total width of W, never cut
FormatPadded(n, W) ==
    LET sign == IF n < 0 THEN <<"-">> ELSE <<>>
        body == IntToStr(IF n < 0 THEN -n ELSE n)
    IN  sign \o Zeros(W - Len(sign) - Len(body)) \o body

\* str.strip(): leading and trailing whitespace removed
RECURSIVE LStrip(_)
LStrip(s) ==
    IF s # <<>> /\ Head(s) \in Whitespace THEN LStrip(Tail(s)) ELSE s

RECURSIVE RStrip(_)
RStrip(s) ==
    IF s # <<>> /\ s[Len(s)] \in Whitespace
    THEN RStrip(SubSeq(s, 1, Len(s) - 1)) ELSE s

Strip(s) == RStrip(LStrip(s))

\* str.rfind(c), 1-based, 0 when absent
RFind(s, c) ==
    IF \E i \in 1..Len(s) : s[i] = c
    THEN CHOOSE i \in 1..Len(s) :
            s[i] = c /\ \A j \in (i + 1)..Len(s) : s[j] # c
    ELSE 0

\* os.path.splitext on a bare filename: the extension starts at the last dot,
\* unless only dots precede it
splitext(p) ==
    LET dotIndex == RFind(p, ".")
    IN  IF dotIndex > 0 /\ \E k \in 1..(dotIndex - 1) : p[k] # "."
        THEN <<SubSeq(p, 1, dotIndex - 1), SubSeq(p, dotIndex, Len(p))>>
        ELSE <<p, <<>>>>

(***************************************************************************)
(* ReSerial.py: configuration constants.                                   *)
(***************************************************************************)
SERIAL_PAD == 3

CONNECTOR == <<".", " ">>

PREFIX_CHAR == <<"N", "o", ".">>

SEPARATORS == <<".", "U+3001", " ">>

(***************************************************************************)
(* ReSerial.py: is_sequence_file.                                          *)
(***************************************************************************)
\* the character class [...] built from the escaped SEPARATORS: every
\* separator stands for itself
SeparatorClass == {SEPARATORS[i] : i \in 1..Len(SEPARATORS)}

\* ^(\d+) : length of the greedy digit run at the start of s
DigitRunLen(s) ==
    CHOOSE n \in 0..Len(s) :
        /\ \A k \in 1..n : s[k] \in Digits
        /\ (n < Len(s) => s[n + 1] \notin Digits)

\* [seps]+ : length of the greedy separator run that starts after position from
SepRunLen(s, from) ==
    CHOOSE n \in 0..(Len(s) - from) :
        /\ \A k \in 1..n : s[from + k] \in SeparatorClass
        /\ (from + n < Len(s) => s[from + n + 1] \notin SeparatorClass)

DotStarDollarDotAll(rest) == Some(rest)

\* (.*)$ without DOTALL/MULTILINE: "." does not match a line feed and "$"
\* matches at the end or just before a final line feed.  The captured group,
\* or None when the tail cannot be matched.
DotStarDollar(rest) ==
    LET n == Len(rest)
    IN  IF \A k \in 1..n : rest[k] # "\n" THEN Some(rest)
        ELSE IF rest[n] = "\n" /\ \A k \in 1..(n - 1) : rest[k] # "\n"
             THEN Some(SubSeq(rest, 1, n - 1))
             ELSE None

\* re.match(pattern, name_without_ext): None, or the two groups
ReMatch(name) ==
    LET d == DigitRunLen(name)
        p == SepRunLen(name, d)
        g2 == DotStarDollar(SubSeq(name, d + p + 1, Len(name)))
    IN  IF d >= 1 /\ p >= 1 /\ g2 # None
        THEN Some(<<SubSeq(name, 1, d), g2[1]>>)
        ELSE None

NoMatch(ext) ==
    [is_seq |-> FALSE, serial_num |-> None, content |-> None, ext |-> ext]

is_sequence_file(fname) ==
    LET parts == splitext(fname)
        name_without_ext == parts[1]
        ext == parts[2]
        match == ReMatch(name_without_ext)
    IN  IF match # None
        THEN LET serial_str == match[1][1]
             IN  IF ~(\A k \in 1..Len(serial_str) : serial_str[k] \in Digits)
                 THEN NoMatch(ext)
                 ELSE [is_seq |-> TRUE,
                       serial_num |-> Some(ParseInt(serial_str)),
                       content |-> Some(Strip(match[1][2])),
                       ext |-> ext]
        ELSE NoMatch(ext)

(***************************************************************************)
(* ReSerial.py: main, step 2 - scan of the folder.                         *)
(***************************************************************************)
\* os.path.exists(os.path.join(TARGET_FOLDER, name))
PathExists(folder, name) == \E e \in folder : e.name = name

ScanOneNoDirCheck(e) ==
    LET r == is_sequence_file(e.name)
    IN  IF r.is_seq
        THEN <<[old_path |-> e.name, serial_num |-> r.serial_num[1],
                content |-> r.content[1], ext |-> r.ext,
                final_serial |-> None]>>
        ELSE <<>>

\* lines 62-74: the entry appended for one listed name, or nothing
ScanOne(e) ==
    IF e.kind = "dir" THEN <<>>
    ELSE LET r == is_sequence_file(e.name)
         IN  IF r.is_seq
             THEN <<[old_path |-> e.name,
                     serial_num |-> r.serial_num[1],
                     content |-> r.content[1],
                     ext |-> r.ext,
                     final_serial |-> None]>>
             ELSE <<>>

\* lines 60-74 for a listing (os.listdir order) of the folder
RECURSIVE ScanListing(_)
ScanListing(listing) ==
    IF listing = <<>> THEN <<>>
    ELSE ScanOne(Head(listing)) \o ScanListing(Tail(listing))

\* the orders in which os.listdir may return the entries
Listings(folder) ==
    LET n == Cardinality(folder)
    IN  {l \in [1..n -> folder] : \A i, j \in 1..n : i # j => l[i] # l[j]}

(***************************************************************************)
(* ReSerial.py: main, step 4 - the serial remap.                           *)
(***************************************************************************)
RECURSIVE SortedSeq(_)
SortedSeq(S) ==
    IF S = {} THEN <<>>
    ELSE LET m == CHOOSE x \in S : \A y \in S : x <= y
         IN  <<m>> \o SortedSeq(S \ {m})

\* line 83: sorted(list(set(serials)))
UniqueSerials(files) ==
    SortedSeq({files[i].serial_num : i \in 1..Len(files)})

ReversedNot(U) == U

\* line 85: unique_serials[::-1]
ReversedUniqueSerials(U) == [i \in 1..Len(U) |-> U[Len(U) + 1 - i]]

NewSerialNoBase(base, reversed_serial) == reversed_serial

CountNotIncremented(count) == count

\* line 124
CountAfterRename(count) == count + 1

\* line 133: the two counts of the summary line
SummaryCounts(files, count) ==
    [succeeded |-> count, failed |-> Len(files) - count]

\* line 89
NewSerial(base, reversed_serial) == base + reversed_serial

\* lines 87-90: dict built from zip(unique_serials, reversed_unique_serials)
SerialReverseMap(U, R, base) ==
    [original \in {U[i] : i \in 1..Len(U)} |->
        LET i == CHOOSE k \in 1..Len(U) : U[k] = original
        IN  NewSerial(base, R[i])]

\* lines 93-95
AssignFinalSerials(files, M) ==
    [i \in 1..Len(files) |->
        [files[i] EXCEPT !.final_serial = Some(M[files[i].serial_num])]]

(***************************************************************************)
(* ReSerial.py: main, step 5 - the rename pass.                            *)
(***************************************************************************)
\* line 102
FormattedSerial(f) == FormatPadded(f.final_serial[1], SERIAL_PAD)

\* lines 105-108
NewName(f) == PREFIX_CHAR \o FormattedSerial(f) \o CONNECTOR \o f.content \o f.ext

\* lines 115-118
TempNewName(f, counter) ==
    PREFIX_CHAR \o FormattedSerial(f) \o CONNECTOR \o f.content
        \o <<"(">> \o IntToStr(counter) \o <<")">> \o f.ext

FirstCandidate(folder, f, temp, counter) == temp

\* lines 114-120: the while loop, from its current (temp_new_path, counter)
RECURSIVE ResolveCollision(_, _, _, _)
ResolveCollision(folder, f, temp, counter) ==
    IF PathExists(folder, temp)
    THEN ResolveCollision(folder, f, TempNewName(f, counter), counter + 1)
    ELSE temp

\* os.rename(old, new) always raises when new names an existing directory
RenameMustRaise(folder, new) ==
    \E e \in folder : e.name = new /\ e.kind = "dir"

\* os.rename(old, new) when it does not raise: the entry at old gets the name
\* new; a file already at new is replaced
OsRename(folder, old, new) ==
    {IF e.name = old THEN [e EXCEPT !.name = new] ELSE e :
        e \in {x \in folder : x.name # new \/ x.name = old}}

(***************************************************************************)
(* ReTime.py: convert_to_timestamp.                                        *)
(***************************************************************************)
\* number of consecutive decimal digits of s from position pos on
DigitsAt(s, pos) ==
    CHOOSE n \in 0..(Len(s) + 1 - pos) :
        /\ \A k \in 0..(n - 1) : s[pos + k] \in Digits
        /\ (pos + n <= Len(s) => s[pos + n] \notin Digits)

\* number of consecutive whitespace characters of s from position pos on
SpacesAt(s, pos) ==
    CHOOSE n \in 0..(Len(s) + 1 - pos) :
        /\ \A k \in 0..(n - 1) : s[pos + k] \in Whitespace
        /\ (pos + n <= Len(s) => s[pos + n] \notin Whitespace)

\* A parse position is 1..Len(s)+1; position 0 means the match has failed.
\* A numeric directive: a digit run of minw..maxw digits.
NumField(s, pos, minw, maxw) ==
    IF pos = 0 THEN [val |-> 0, next |-> 0]
    ELSE LET n == DigitsAt(s, pos)
         IN  IF n >= minw /\ n <= maxw
             THEN [val |-> ParseInt(SubSeq(s, pos, pos + n - 1)), next |-> pos + n]
             ELSE [val |-> 0, next |-> 0]

\* a literal character of the format
Lit(s, pos, c) ==
    IF pos # 0 /\ pos <= Len(s) /\ s[pos] = c THEN pos + 1 ELSE 0

\* a blank of the format matches one or more whitespace characters
Blank(s, pos) ==
    IF pos # 0 /\ SpacesAt(s, pos) >= 1 THEN pos + SpacesAt(s, pos) ELSE 0

IsLeap(y) == (y % 4 = 0 /\ y % 100 # 0) \/ y % 400 = 0

DaysInMonth(y, m) ==
    IF m = 2 THEN (IF IsLeap(y) THEN 29 ELSE 28)
    ELSE IF m \in {4, 6, 9, 11} THEN 30 ELSE 31

\* datetime.strptime(time_str, "%Y-%m-%d %H:%M:%S"): the fields, or None when
\* it raises ValueError (no match, unconverted data, or no such date)
strptime(time_str) ==
    LET Y  == NumField(time_str, 1, 4, 4)
        mo == NumField(time_str, Lit(time_str, Y.next, "-"), 1, 2)
        d  == NumField(time_str, Lit(time_str, mo.next, "-"), 1, 2)
        H  == NumField(time_str, Blank(time_str, d.next), 1, 2)
        M  == NumField(time_str, Lit(time_str, H.next, ":"), 1, 2)
        S  == NumField(time_str, Lit(time_str, M.next, ":"), 1, 2)
    IN  IF /\ S.next = Len(time_str) + 1
           /\ Y.val >= 1
           /\ mo.val \in 1..12
           /\ d.val \in 1..DaysInMonth(Y.val, mo.val)
           /\ H.val \in 0..23
           /\ M.val \in 0..59
           /\ S.val \in 0..59
        THEN Some([year |-> Y.val, month |-> mo.val, day |-> d.val,
                   hour |-> H.val, minute |-> M.val, second |-> S.val])
        ELSE None

\* days from 1970-01-01 to the civil date
DaysFromCivil(y, m, d) ==
    LET yy  == IF m <= 2 THEN y - 1 ELSE y
        era == yy \div 400
        yoe == yy - era * 400
        mp  == IF m > 2 THEN m - 3 ELSE m + 9
        doy == (153 * mp + 2) \div 5 + d - 1
        doe == yoe * 365 + yoe \div 4 - yoe \div 100 + doy
    IN  era * 146097 + doe - 719468

\* time.mktime(dt.timetuple()): local wall-clock fields to seconds since the
\* epoch.  The Windows C runtime has no time before the epoch: OverflowError.
mktime(dt, zone, sys) ==
    LET t == DaysFromCivil(dt.year, dt.month, dt.day) * 86400
                + dt.hour * 3600 + dt.minute * 60 + dt.second - zone
    IN  IF t < 0 /\ sys = "Windows"
        THEN [raises |-> "OverflowError", value |-> 0]
        ELSE [raises |-> "", value |-> t]

ConvertSwallowsError(time_str, zone, sys) ==
    LET dt == strptime(time_str)
    IN  IF dt = None THEN [raises |-> "", value |-> 0]
        ELSE mktime(dt[1], zone, sys)

\* lines 11-17
convert_to_timestamp(time_str, zone, sys) ==
    LET dt == strptime(time_str)
    IN  IF dt = None THEN [raises |-> "ValueError", value |-> 0]
        ELSE mktime(dt[1], zone, sys)

(***************************************************************************)
(* ReTime.py: modify_file_times.                                           *)
(***************************************************************************)
\* truth value of an optional string / an optional number
TruthyStr(a) == a # None /\ a[1] # <<>>

TruthyNum(t) == t # None /\ t[1] # 0

\* lines 42-44, one argument: None when not converted
ConvertArg(a, zone, sys) ==
    IF TruthyStr(a)
    THEN LET r == convert_to_timestamp(a[1], zone, sys)
         IN  [raises |-> r.raises, value |-> Some(r.value)]
    ELSE [raises |-> "", value |-> None]

\* lines 50-53: datetime.fromtimestamp(ts) is a naive local wall-clock time
ts_to_pywintime(t, zone) == [aware |-> FALSE, v |-> t + zone]

\* win32file.GetFileTime: zone-aware times
GetFileTime(times) ==
    [create |-> [aware |-> TRUE, v |-> times.create],
     access |-> [aware |-> TRUE, v |-> times.access],
     modify |-> [aware |-> TRUE, v |-> times.modify]]

\* win32file.SetFileTime stores UTC; a naive time is taken as local time
ToFileTime(w, zone) == IF w.aware THEN w.v ELSE w.v - zone

\* lines 70-72
FinalWinTime(new_ts, original, zone) ==
    IF TruthyNum(new_ts) THEN ts_to_pywintime(new_ts[1], zone) ELSE original

\* lines 84-85
UtimeValue(new_ts, current) ==
    IF TruthyNum(new_ts) THEN new_ts[1] ELSE current

\* "%Y-%m-%d %H:%M:%S" text of a time
TimeString(y, m, d, H, M, S) ==
    FormatPadded(y, 4) \o <<"-">> \o FormatPadded(m, 2) \o <<"-">>
        \o FormatPadded(d, 2) \o <<" ">> \o FormatPadded(H, 2) \o <<":">>
        \o FormatPadded(M, 2) \o <<":">> \o FormatPadded(S, 2)

(***************************************************************************)
(* The calls the timestamp editor is run on.                               *)
(***************************************************************************)
T_EMPTY == <<>>
T_EPOCH == TimeString(1970, 1, 1, 0, 0, 0)
T_EPOCH_EAST == TimeString(1970, 1, 1, 8, 0, 0)
T_BEFORE == TimeString(1969, 12, 31, 23, 59, 59)
T_EXAMPLE == TimeString(2023, 1, 1, 20, 0, 0)
T_BAD_MONTH == TimeString(2023, 13, 1, 20, 0, 0)
T_BAD_DAY == TimeString(2023, 2, 30, 0, 0, 0)

TimeStrings ==
    {T_EMPTY, T_EPOCH, T_EPOCH_EAST, T_BEFORE, T_EXAMPLE, T_BAD_MONTH, T_BAD_DAY}

TimeArgs == {None} \cup {Some(t) : t \in TimeStrings}

TimeZones == {0, 28800}

OriginalTimes == [create |-> 1000, access |-> 3000, modify |-> 2000]

NowValues == {1700000000}

(***************************************************************************)
(* The folders the renamer is run on.                                      *)
(***************************************************************************)
Universe ==
    << [name |-> <<"1", ".", "a", ".", "t">>, kind |-> "file"],
       [name |-> <<"1", " ", "a", ".", "t">>, kind |-> "file"],
       [name |-> <<"3", ".", " ", "b", ".", "t">>, kind |-> "file"],
       [name |-> <<"0", "2", "U+3001", "a">>, kind |-> "file"],
       [name |-> <<"N", "o", ".", "0", "0", "3", ".", " ", "a", ".", "t">>,
        kind |-> "file"],
       [name |-> <<"N", "o", ".", "0", "0", "3", ".", " ", "a", "(", "1", ")",
                   ".", "t">>, kind |-> "file"],
       [name |-> <<"x", ".", "t">>, kind |-> "file"],
       [name |-> <<"1", ".", "t">>, kind |-> "file"],
       [name |-> <<"1", "0", " ", "a", ".", "t">>, kind |-> "file"],
       [name |-> <<"0", " ", "z">>, kind |-> "file"],
       [name |-> <<"5", " ", "s", "u", "b">>, kind |-> "dir"],
       [name |-> <<"N", "o", ".", "0", "0", "3", ".", " ", "a", ".", "t">>,
        kind |-> "dir"] >>

BaseSerials == {-1, 0, 2}

Folders ==
    {{[id |-> i, name |-> Universe[i].name, kind |-> Universe[i].kind] : i \in I} :
        I \in {J \in SUBSET (1..Len(Universe)) :
                 /\ Cardinality(J) <= MaxFiles
                 /\ \A a, b \in J : a # b => Universe[a].name # Universe[b].name}}

(***************************************************************************)
(* Initial states.                                                         *)
(***************************************************************************)
Alphabet == {"0", "1", ".", "U+3001", " ", "a", "\n"}

Filenames == UNION {[1..n -> Alphabet] : n \in 0..MaxNameLen}

InitClassifier ==
    /\ filename \in (IF tool = "classifier" THEN Filenames ELSE {<<>>})
    /\ cls = None

InitRenamer ==
    /\ folder_exists \in (IF tool = "renamer" THEN BOOLEAN ELSE {FALSE})
    /\ fs \in (IF tool = "renamer" /\ folder_exists THEN Folders ELSE {{}})
    /\ BASE_SERIAL \in (IF tool = "renamer" /\ folder_exists
                        THEN BaseSerials ELSE {0})
    /\ fs0 = fs
    /\ sequence_files = <<>>
    /\ unique_serials = <<>>
    /\ serial_reverse_map = <<>>
    /\ idx = 0
    /\ success_count = 0
    /\ attempts = <<>>
    /\ renames = <<>>
    /\ summary = None

InitTime ==
    /\ system \in (IF tool = "timeeditor" THEN {"Windows", "Linux"} ELSE {"Windows"})
    /\ tz \in (IF tool = "timeeditor" THEN TimeZones ELSE {0})
    /\ now \in NowValues
    /\ target \in (IF tool = "timeeditor" THEN {"missing", "dir", "file"}
                   ELSE {"missing"})
    /\ ftimes = OriginalTimes
    /\ ftimes0 = ftimes
    /\ args \in (IF tool = "timeeditor"
                 THEN [create_time : TimeArgs, modify_time : TimeArgs,
                       access_time : TimeArgs]
                 ELSE {[create_time |-> None, modify_time |-> None,
                        access_time |-> None]})
    /\ ts = [create |-> None, modify |-> None, access |-> None]
    /\ raised = None
    /\ writes = 0
    /\ warned = FALSE
    /\ stderr = <<>>
    /\ exit_code = None

Init ==
    /\ tool \in {"classifier", "renamer", "timeeditor"}
    /\ pc = "start"
    /\ InitClassifier
    /\ InitRenamer
    /\ InitTime

(***************************************************************************)
(* Actions: the classifier on its own.                                     *)
(***************************************************************************)
Classify ==
    /\ tool = "classifier" /\ pc = "start"
    /\ cls' = Some(is_sequence_file(filename))
    /\ pc' = "done"
    /\ UNCHANGED <<tool, filename, renamerVars, timeVars>>

(***************************************************************************)
(* Actions: ReSerial.main.                                                 *)
(***************************************************************************)
\* lines 55-57
MainFolderMissing ==
    /\ tool = "renamer" /\ pc = "start"
    /\ ~folder_exists
    /\ pc' = "done"
    /\ UNCHANGED <<tool, classifierVars, renamerVars, timeVars>>

\* lines 59-79
MainScan ==
    /\ tool = "renamer" /\ pc = "start"
    /\ folder_exists
    /\ \E listing \in Listings(fs) :
          /\ sequence_files' = ScanListing(listing)
          /\ pc' = IF sequence_files' = <<>> THEN "done" ELSE "remap"
    /\ UNCHANGED <<tool, classifierVars, BASE_SERIAL, folder_exists, fs, fs0,
                   unique_serials, serial_reverse_map, idx, success_count,
                   attempts, renames, summary, timeVars>>

\* lines 81-98
MainRemap ==
    /\ tool = "renamer" /\ pc = "remap"
    /\ unique_serials' = UniqueSerials(sequence_files)
    /\ serial_reverse_map' =
          SerialReverseMap(unique_serials',
                           ReversedUniqueSerials(unique_serials'), BASE_SERIAL)
    /\ sequence_files' = AssignFinalSerials(sequence_files, serial_reverse_map')
    /\ success_count' = 0
    /\ idx' = 1
    /\ attempts' = [i \in 1..Len(sequence_files) |-> 0]
    /\ pc' = "rename"
    /\ UNCHANGED <<tool, classifierVars, BASE_SERIAL, folder_exists, fs, fs0,
                   renames, summary, timeVars>>

\* lines 99-130: one iteration of the rename loop; os.rename may raise
MainRenameOne ==
    /\ tool = "renamer" /\ pc = "rename"
    /\ idx <= Len(sequence_files)
    /\ LET file_info == sequence_files[idx]
           new_path == NewName(file_info)
           temp_new_path == ResolveCollision(fs, file_info, new_path, 1)
       IN  \E rename_raises \in (IF RenameMustRaise(fs, temp_new_path)
                                  THEN {TRUE} ELSE BOOLEAN) :
              IF rename_raises
              THEN UNCHANGED <<fs, success_count, renames>>
              ELSE /\ fs' = OsRename(fs, file_info["old_path"], temp_new_path)
                   /\ success_count' = CountAfterRename(success_count)
                   /\ renames' = Append(renames,
                          [entry |-> idx,
                           old |-> file_info["old_path"],
                           new |-> temp_new_path,
                           before |-> {e.name : e \in fs}])
    /\ attempts' = [attempts EXCEPT ![idx] = @ + 1]
    /\ idx' = idx + 1
    /\ UNCHANGED <<tool, pc, classifierVars, BASE_SERIAL, folder_exists, fs0,
                   sequence_files, unique_serials, serial_reverse_map,
                   summary, timeVars>>

\* line 133
MainSummary ==
    /\ tool = "renamer" /\ pc = "rename"
    /\ idx > Len(sequence_files)
    /\ summary' = Some(SummaryCounts(sequence_files, success_count))
    /\ pc' = "done"
    /\ UNCHANGED <<tool, classifierVars, BASE_SERIAL, folder_exists, fs, fs0,
                   sequence_files, unique_serials, serial_reverse_map, idx,
                   success_count, attempts, renames, timeVars>>

(***************************************************************************)
(* Actions: ReTime.py run as a program.                                    *)
(***************************************************************************)
\* lines 36-39
TimeValidate ==
    /\ tool = "timeeditor" /\ pc = "start"
    /\ IF target = "missing"
       THEN raised' = Some("FileNotFoundError") /\ pc' = "handler"
       ELSE IF target # "file"
            THEN raised' = Some("IsADirectoryError") /\ pc' = "handler"
            ELSE raised' = None /\ pc' = "convert"
    /\ UNCHANGED <<tool, classifierVars, renamerVars, system, tz, now, target,
                   ftimes, ftimes0, args, ts, writes, warned, stderr,
                   exit_code>>

\* lines 42-44: the three conversions in order; the first that raises ends the call
TimeConvert ==
    /\ tool = "timeeditor" /\ pc = "convert"
    /\ LET c == ConvertArg(args.create_time, tz, system)
           m == ConvertArg(args.modify_time, tz, system)
           a == ConvertArg(args.access_time, tz, system)
           failed == IF c.raises # "" THEN c.raises
                     ELSE IF m.raises # "" THEN m.raises
                     ELSE a.raises
       IN  IF failed # ""
           THEN /\ raised' = Some(failed)
                /\ pc' = "handler"
                /\ ts' = ts
           ELSE /\ ts' = [create |-> c.value, modify |-> m.value,
                          access |-> a.value]
                /\ pc' = "apply"
                /\ raised' = raised
    /\ UNCHANGED <<tool, classifierVars, renamerVars, system, tz, now, target,
                   ftimes, ftimes0, args, writes, warned, stderr, exit_code>>

\* lines 48-76 and 88-96: CreateFile or SetFileTime may raise
TimeApplyWindows ==
    /\ tool = "timeeditor" /\ pc = "apply"
    /\ system = "Windows"
    /\ LET original == GetFileTime(ftimes)
           final_create == FinalWinTime(ts.create, original.create, tz)
           final_access == FinalWinTime(ts.access, original.access, tz)
           final_modify == FinalWinTime(ts.modify, original.modify, tz)
       IN  \E outcome \in {"ok", "open_raises", "set_raises"} :
              /\ ftimes' = IF outcome = "ok"
                           THEN [create |-> ToFileTime(final_create, tz),
                                 access |-> ToFileTime(final_access, tz),
                                 modify |-> ToFileTime(final_modify, tz)]
                           ELSE ftimes
              /\ writes' = IF outcome = "open_raises" THEN writes ELSE writes + 1
              /\ raised' = IF outcome = "ok" THEN None ELSE Some("RuntimeError")
              /\ pc' = IF outcome = "ok" THEN "exit" ELSE "handler"
    /\ UNCHANGED <<tool, classifierVars, renamerVars, system, tz, now, target,
                   ftimes0, args, ts, warned, stderr, exit_code>>

\* lines 78-96: os.utime may raise
TimeApplyPosix ==
    /\ tool = "timeeditor" /\ pc = "apply"
    /\ system # "Windows"
    /\ warned' = TruthyNum(ts.create)
    /\ LET utime_access == UtimeValue(ts.access, now)
           utime_modify == UtimeValue(ts.modify, now)
       IN  \E utime_raises \in BOOLEAN :
              /\ ftimes' = IF utime_raises THEN ftimes
                           ELSE [ftimes EXCEPT !.access = utime_access,
                                               !.modify = utime_modify]
              /\ writes' = writes + 1
              /\ raised' = IF utime_raises THEN Some("RuntimeError") ELSE None
              /\ pc' = IF utime_raises THEN "handler" ELSE "exit"
    /\ UNCHANGED <<tool, classifierVars, renamerVars, system, tz, now, target,
                   ftimes0, args, ts, stderr, exit_code>>

\* lines 113-114: the top-level handler prints the error
TimeHandler ==
    /\ tool = "timeeditor" /\ pc = "handler"
    /\ stderr' = Append(stderr, raised[1])
    /\ pc' = "exit"
    /\ UNCHANGED <<tool, classifierVars, renamerVars, system, tz, now, target,
                   ftimes, ftimes0, args, ts, raised, writes, warned,
                   exit_code>>

\* end of the script: the interpreter exits with status 0
TimeExit ==
    /\ tool = "timeeditor" /\ pc = "exit"
    /\ exit_code' = Some(0)
    /\ pc' = "done"
    /\ UNCHANGED <<tool, classifierVars, renamerVars, system, tz, now, target,
                   ftimes, ftimes0, args, ts, raised, writes, warned, stderr>>

Next ==
    \/ Classify
    \/ MainFolderMissing
    \/ MainScan
    \/ MainRemap
    \/ MainRenameOne
    \/ MainSummary
    \/ TimeValidate
    \/ TimeConvert
    \/ TimeApplyWindows
    \/ TimeApplyPosix
    \/ TimeHandler
    \/ TimeExit

Spec == Init /\ [][Next]_vars

(***************************************************************************)
(* Properties of the renamer.                                              *)
(***************************************************************************)
Names(folder) == {e.name : e \in folder}

\* the mapping phase of main() has run
Mapped == tool = "renamer" /\ (pc = "rename" \/ (pc = "done" /\ summary # None))

ClassifiedSerials == {sequence_files[i].serial_num : i \in 1..Len(sequence_files)}

\* position of u in the ascending order of S, counted from 0
Rank(S, u) == Cardinality({v \in S : v < u})

\* the element of S at the mirrored position
Mirror(S, u) == CHOOSE w \in S : Rank(S, w) = Cardinality(S) - 1 - Rank(S, u)

\* C1: for the sorted distinct serials U and the base B, the mapping M built by
\* main() satisfies M[U[i]] + M[U[n-1-i]] = 2B + U[i] + U[n-1-i] for every i,
\* is defined on exactly the elements of U and is injective.
C1_RemapSymmetry ==
    Mapped =>
        LET S == ClassifiedSerials
            M == serial_reverse_map
        IN  /\ \A u \in S : u >= 0
            /\ {unique_serials[i] : i \in 1..Len(unique_serials)} = S
            /\ \A i \in 1..(Len(unique_serials) - 1) :
                  unique_serials[i] < unique_serials[i + 1]
            /\ DOMAIN M = S
            /\ \A u \in S :
                  M[u] + M[Mirror(S, u)] = 2 * BASE_SERIAL + u + Mirror(S, u)
            /\ \A u, v \in S : u # v => M[u] # M[v]

C1_Witness ==
    /\ Mapped
    /\ Cardinality(ClassifiedSerials) = 3
    /\ BASE_SERIAL = -1

\* the k-th name the rename pass tries for an entry: the plain name, then the
\* names with the suffixes (1), (2), ...
Candidate(f, k) == IF k = 0 THEN NewName(f) ELSE TempNewName(f, k)

\* C2: every rename that is performed targets a name at which no entry exists
\* at that moment; the name is the first free one among the plain name and the
\* suffixed names (1), (2), ...; no entry is overwritten and all names stay
\* pairwise distinct.
C2_NoOverwrite ==
    tool = "renamer" =>
        /\ \A n \in 1..Len(renames) :
              LET r == renames[n]
                  f == sequence_files[r.entry]
              IN  /\ r.new \notin r.before
                  /\ \E k \in 0..Cardinality(r.before) :
                        /\ r.new = Candidate(f, k)
                        /\ \A j \in 0..(k - 1) : Candidate(f, j) \in r.before
        /\ {e.id : e \in fs} = {e.id : e \in fs0}
        /\ \A e1, e2 \in fs : e1.name = e2.name => e1 = e2

\* a rename that took the suffix (1) because the plain name had been given to
\* another file earlier in the same run
C2_Witness ==
    /\ tool = "renamer"
    /\ \E n \in 1..Len(renames) :
          LET r == renames[n]
              f == sequence_files[r.entry]
          IN  /\ r.new = Candidate(f, 1)
              /\ Candidate(f, 0) \notin Names(fs0)

\* C3: after the mapping phase, entries with the same serial have the same
\* final serial, and every entry's final serial is BASE_SERIAL plus the mirror
\* element of its serial in the sorted distinct list.
C3_SameSerialSameFinal ==
    Mapped =>
        /\ \A i, j \in 1..Len(sequence_files) :
              sequence_files[i].serial_num = sequence_files[j].serial_num
                  => sequence_files[i].final_serial = sequence_files[j].final_serial
        /\ \A i \in 1..Len(sequence_files) :
              sequence_files[i].final_serial =
                  Some(BASE_SERIAL
                         + Mirror(ClassifiedSerials, sequence_files[i].serial_num))

C3_Witness ==
    /\ Mapped
    /\ Cardinality(ClassifiedSerials) = 2
    /\ \E i, j \in 1..Len(sequence_files) :
          /\ i # j
          /\ sequence_files[i].serial_num = sequence_files[j].serial_num
          /\ sequence_files[i].final_serial # Some(sequence_files[i].serial_num)

\* C4: the rename pass is fail-soft per item: whichever renames raise, every
\* classified entry is attempted exactly once, the run ends with the summary,
\* succeeded + failed is the number of classified entries and succeeded is the
\* number of renames performed.
C4_FailSoft ==
    (tool = "renamer" /\ sequence_files # <<>>) =>
        /\ pc = "rename" =>
              /\ idx \in 1..(Len(sequence_files) + 1)
              /\ \A i \in 1..Len(sequence_files) :
                    attempts[i] = (IF i < idx THEN 1 ELSE 0)
              /\ success_count = Len(renames)
        /\ pc = "done" =>
              /\ summary # None
              /\ \A i \in 1..Len(sequence_files) : attempts[i] = 1
              /\ summary[1].succeeded + summary[1].failed = Len(sequence_files)
              /\ summary[1].succeeded = Len(renames)

\* a finished run in which a rename failed and a later one succeeded
C4_Witness ==
    /\ tool = "renamer" /\ pc = "done" /\ summary # None
    /\ summary[1].failed >= 1
    /\ \E n \in 1..Len(renames) : renames[n].entry >= 2
    /\ \A n \in 1..Len(renames) : renames[n].entry # 1

\* the entry of the folder that has the identity of e0
Current(e0) == CHOOSE e \in fs : e.id = e0.id

RenamesOf(e0) == {n \in 1..Len(renames) : renames[n].old = e0.name}

\* C10: the folder keeps its number of entries; subdirectories and files not
\* classified keep their names; a classified file is renamed at most once and
\* has its old name or its one new name; with the folder missing or nothing
\* classified, nothing is renamed.
C10_Frame ==
    tool = "renamer" =>
        /\ Cardinality(fs) = Cardinality(fs0)
        /\ {e.id : e \in fs} = {e.id : e \in fs0}
        /\ \A e0 \in fs0 :
              /\ Current(e0).kind = e0.kind
              /\ (e0.kind = "dir" \/ ~is_sequence_file(e0.name).is_seq)
                    => Current(e0).name = e0.name
              /\ Cardinality(RenamesOf(e0)) <= 1
              /\ RenamesOf(e0) = {} => Current(e0).name = e0.name
              /\ \A n \in RenamesOf(e0) : Current(e0).name = renames[n].new
        /\ (~folder_exists \/ (pc = "done" /\ sequence_files = <<>>))
              => (renames = <<>> /\ fs = fs0)

\* a finished run over a subdirectory with a serial-like name, a file that
\* failed to rename and a file that was renamed
C10_Witness ==
    /\ tool = "renamer" /\ pc = "done" /\ summary # None
    /\ \E e \in fs0 : e.kind = "dir" /\ is_sequence_file(e.name).is_seq
    /\ summary[1].failed = 1
    /\ summary[1].succeeded = 1

(***************************************************************************)
(* Properties of the classifier.                                           *)
(***************************************************************************)
AllIn(s, from, to, S) == \A k \in from..to : s[k] \in S

\* no line feed, except as the last character
OneLine(rest) == \A k \in 1..(Len(rest) - 1) : rest[k] # "\n"

\* the name without extension is d digits, then p separators (the whole
\* separator run), then a rest; with anyRest the rest is arbitrary, without
\* it the rest is one line
Decomposes(name, d, p, anyRest) ==
    /\ d >= 1 /\ p >= 1 /\ d + p <= Len(name)
    /\ AllIn(name, 1, d, Digits)
    /\ AllIn(name, d + 1, d + p, SeparatorClass)
    /\ (d + p < Len(name) => name[d + p + 1] \notin SeparatorClass)
    /\ (anyRest \/ OneLine(SubSeq(name, d + p + 1, Len(name))))

\* what the classifier is claimed to return for fname
Expected(fname, anyRest) ==
    LET name == splitext(fname)[1]
        ext == splitext(fname)[2]
    IN  IF \E d, p \in 1..Len(name) : Decomposes(name, d, p, anyRest)
        THEN LET d == CHOOSE d \in 1..Len(name) :
                         \E p \in 1..Len(name) : Decomposes(name, d, p, anyRest)
                 p == CHOOSE p \in 1..Len(name) : Decomposes(name, d, p, anyRest)
             IN  [is_seq |-> TRUE,
                  serial_num |-> Some(ParseInt(SubSeq(name, 1, d))),
                  content |-> Some(Strip(SubSeq(name, d + p + 1, Len(name)))),
                  ext |-> ext]
        ELSE [is_seq |-> FALSE, serial_num |-> None, content |-> None,
              ext |-> ext]

\* C8 as stated: is_sequence_file returns (True, serial, remainder, ext) exactly
\* when the name without extension is one or more digits, one or more
\* separators and then any rest, and (False, None, None, ext) otherwise.
C8_Original ==
    (tool = "classifier" /\ cls # None) => cls[1] = Expected(filename, TRUE)

\* C8 amended: as stated, but the rest may hold no line feed other than as its
\* last character; a name whose rest holds one elsewhere is not matched.
C8_Classifier ==
    (tool = "classifier" /\ cls # None) => cls[1] = Expected(filename, FALSE)

\* a matched name whose remainder lost trailing whitespace
C8_Witness ==
    /\ tool = "classifier" /\ cls # None
    /\ cls[1].is_seq
    /\ filename[Len(filename)] = " "
    /\ cls[1].content = Some(<<"a">>)

(***************************************************************************)
(* Properties of the timestamp editor.                                     *)
(***************************************************************************)
\* modify_file_times has returned or raised
CallEnded == tool = "timeeditor" /\ pc \in {"handler", "exit", "done"}

CallReturned == tool = "timeeditor" /\ pc \in {"exit", "done"} /\ raised = None

Fields == {"create", "modify", "access"}

Arg(field) ==
    CASE field = "create" -> args.create_time
      [] field = "modify" -> args.modify_time
      [] field = "access" -> args.access_time

\* create, modify, access are converted in this order
Order(field) ==
    CASE field = "create" -> 1 [] field = "modify" -> 2 [] field = "access" -> 3

Supplied(field) == Arg(field) # None

SuppliedNonEmpty(field) == Arg(field) # None /\ Arg(field)[1] # <<>>

FailsToParse(field) == strptime(Arg(field)[1]) = None

\* the point in time a parseable string stands for
ParsedTime(field) == mktime(strptime(Arg(field)[1])[1], tz, "any").value

\* C5 as stated: if any supplied time string fails to parse, the call fails
\* with the invalid-time-format error before any timestamp-writing call, and
\* the three timestamps keep their values.
C5_Original ==
    (CallEnded /\ target = "file"
       /\ \E f \in Fields : Supplied(f) /\ FailsToParse(f))
    => (raised = Some("ValueError") /\ writes = 0 /\ ftimes = ftimes0)

\* the string of f fails to parse and no string converted before it does
FirstUnparseable(f) ==
    /\ SuppliedNonEmpty(f) /\ FailsToParse(f)
    /\ \A g \in Fields :
          (Order(g) < Order(f) /\ SuppliedNonEmpty(g)) => ~FailsToParse(g)

\* a string converted before that of f parses to a time mktime cannot return
OverflowBefore(f) ==
    \E g \in Fields :
        /\ Order(g) < Order(f) /\ SuppliedNonEmpty(g)
        /\ system = "Windows" /\ ParsedTime(g) < 0

\* C5 amended: if any supplied non-empty time string fails to parse (an empty
\* string counts as not supplied and is never parsed), the call raises before
\* any timestamp-writing call and the three timestamps keep their values; the
\* error is the invalid-time-format error unless the conversion of an earlier
\* argument already raised OverflowError.
C5_ParseErrorAborts ==
    (CallEnded /\ target = "file")
    => \A f \in Fields :
          FirstUnparseable(f)
          => /\ writes = 0
             /\ ftimes = ftimes0
             /\ raised = Some(IF OverflowBefore(f) THEN "OverflowError"
                              ELSE "ValueError")

\* a valid creation time followed by an unparseable modification time
C5_Witness ==
    /\ tool = "timeeditor" /\ pc = "done"
    /\ args.create_time = Some(T_EXAMPLE)
    /\ args.modify_time = Some(T_BAD_DAY)
    /\ raised = Some("ValueError")
    /\ stderr = <<"ValueError">>

Stamp(times, field) ==
    CASE field = "create" -> times.create
      [] field = "modify" -> times.modify
      [] field = "access" -> times.access

\* C6: on Windows, after a successful call whose supplied strings all parse,
\* every timestamp for which a string was supplied is the parsed point in time
\* (also when that is timestamp 0) and every other one has its pre-call value.
C6_WindowsFrame ==
    (CallReturned /\ system = "Windows" /\ target = "file"
       /\ \A f \in Fields : Supplied(f) => ~FailsToParse(f))
    => \A f \in Fields :
          Stamp(ftimes, f) = (IF Supplied(f) THEN ParsedTime(f)
                              ELSE Stamp(ftimes0, f))

\* C7: when modify_file_times fails, the error is printed to the error stream
\* and the process ends with a non-zero exit code; exit code 0 only when the
\* timestamps were set.
C7_ExitCode ==
    (tool = "timeeditor" /\ pc = "done")
    => /\ raised # None => (stderr # <<>> /\ exit_code # Some(0))
       /\ exit_code = Some(0) => (raised = None /\ writes >= 1)

\* C9: off Windows, after a successful call, a supplied creation time is
\* ignored with a warning, the creation time is unchanged, and modification
\* and access time are the supplied parsed value, or the current time when
\* none was supplied.  (An empty string is read here as not supplied.)
C9_PosixDefaults ==
    (CallReturned /\ system # "Windows" /\ target = "file")
    => /\ SuppliedNonEmpty("create") => warned
       /\ ftimes.create = ftimes0.create
       /\ \A f \in {"modify", "access"} :
             Stamp(ftimes, f) = (IF SuppliedNonEmpty(f) THEN ParsedTime(f)
                                 ELSE now)

====
